---- MODULE Spec2Model ----
(***************************************************************************)
(* Model of etl/fetch_openalex.py: the retrying HTTP client (_get), the    *)
(* cursor paginator (fetch_all), the seed loaders, the unit attribution    *)
(* resolver (choose_unit_for_authorship), the per-author harvest and the   *)
(* orchestrating main loop.                                                *)
(*                                                                         *)
(* Python values are modelled as follows.  A str is a sequence of          *)
(* one-character strings; None is the one-element sequence <<"<None>">>,   *)
(* which no str equals.  A dict is a record; a missing key is a None       *)
(* field.  A list is a sequence; a list-valued key that is missing or None *)
(* is the empty sequence (the code reads such keys only as `x or []`).     *)
(* A CSV file is a record [exists, rows].                                  *)
(***************************************************************************)
EXTENDS Integers, Sequences, FiniteSets, TLC

(***************************************************************************)
(* Python value helpers                                                    *)
(***************************************************************************)
None == <<"<None>">>

\* Python truthiness of an Optional[str] / Optional[list]
Truthy(x) == x # None /\ x # <<>>

\* `x or d`
Or(x, d) == IF Truthy(x) THEN x ELSE d

\* len() of a str
StrLen(s) == Len(s)

RECURSIVE LStrip(_)
LStrip(s) == IF s # <<>> /\ Head(s) = " " THEN LStrip(Tail(s)) ELSE s

RECURSIVE RStrip(_)
RStrip(s) == IF s # <<>> /\ s[Len(s)] = " " THEN RStrip(SubSeq(s, 1, Len(s) - 1)) ELSE s

\* str.strip()
Strip(s) == RStrip(LStrip(s))

\* " ".join([a, b])
JoinSpace(a, b) == a \o <<" ">> \o b

\* needle occurs in hay as a contiguous substring
IsSubstring(needle, hay) ==
    \E i \in 1..(Len(hay) - Len(needle) + 1) :
        SubSeq(hay, i, i + Len(needle) - 1) = needle

\* f"author:{aid}" and f"Author {aid}"
AuthorUnitId(aid) == <<"a", "u", "t", "h", "o", "r", ":">> \o aid
AuthorUnitName(aid) == <<"A", "u", "t", "h", "o", "r", " ">> \o aid

(***************************************************************************)
(* Regular expressions.  The patterns of the model are literals (re.search *)
(* is then a substring search), the pattern ".*" (matches every subject,   *)
(* the empty one included) and patterns holding an unbalanced "(", which   *)
(* re.compile rejects with re.error.                                       *)
(***************************************************************************)
DotStar == <<".", "*">>

ReCompiles(pat) == \A i \in 1..Len(pat) : pat[i] # "("

ReSearch(pat, subject) == IF pat = DotStar THEN TRUE ELSE IsSubstring(pat, subject)

(***************************************************************************)
(* Bounds of the model                                                     *)
(***************************************************************************)
\* longest alias-rule table and longest institution list of an authorship
MaxRules == 2
MaxInsts == 2

(***************************************************************************)
(* State                                                                   *)
(***************************************************************************)
VARIABLES
    aliasCsv,          \* seeds/unit_aliases.csv: [exists, rows]
    overridesCsv,      \* seeds/author_overrides.csv: [exists, rows]
    ALIAS_RULES,       \* module global, loaded once
    AUTHOR_OVERRIDES,  \* module global, loaded once
    r_aid,             \* resolver call: argument aid
    r_authorship,      \* resolver call: argument authorship
    r_best,            \* resolver call: index of the local `best` institution (0: none)
    r_out,             \* resolver call: returned tuple (None before the call returns)
    pc,                \* position of the program
    df,                \* read_roster_ids: the roster read, <<>> outside the call
    roster,            \* main: author_ids
    idx,               \* main: position of the loop in author_ids
    rows,              \* main: rows
    harvests,          \* history of the loop: per finished iteration, author, outcome, works
    out,               \* fetch_all: out
    cursor,            \* fetch_all: cursor
    rateSleeps,        \* fetch_all: time.sleep(RATE) calls made in this call
    sentCursor,        \* cursor parameter of the last request issued
    attempt,           \* _get: iterations of the retry loop finished
    backoff,           \* _get: backoff
    nreq,              \* _get: requests issued in this call
    sleeps,            \* _get: durations of the backoff sleeps of this call
    last,              \* _get: status code of r, 0 before the first response
    resp,              \* responses the server gave in this _get call: [n, ntrans]
    pages,             \* page bodies received in this fetch_all call
    ngets,             \* _get calls made in this fetch_all call
    exc,               \* exception in flight (or the one that ended the run)
    excStatus,         \* status of the response an HTTPError carries
    worksCsv,          \* data/works.csv: [exists, rows]
    globalsCsv,        \* data/globals_concepts.csv: [exists, rows]
    netUsed,           \* history of the run: an HTTP request has been issued
    retried            \* history of the run: a _get call that is over had to retry

(***************************************************************************)
(* Seeds: aliases & overrides                                              *)
(***************************************************************************)
\* variant: an unstable sort, r put before the rules of its own priority
InsertBeforeEqual(sorted, r) ==
    LET k == Cardinality({i \in 1..Len(sorted) : sorted[i].priority > r.priority})
    IN  SubSeq(sorted, 1, k) \o <<r>> \o SubSeq(sorted, k + 1, Len(sorted))

\* list.sort(key=priority, reverse=True) is stable: one insertion step puts r
\* behind every rule whose priority is at least r's
InsertByPriority(sorted, r) ==
    LET k == Cardinality({i \in 1..Len(sorted) : sorted[i].priority >= r.priority})
    IN  SubSeq(sorted, 1, k) \o <<r>> \o SubSeq(sorted, k + 1, Len(sorted))

RECURSIVE SortByPriorityDesc(_, _)
SortByPriorityDesc(sorted, rest) ==
    IF rest = <<>> THEN sorted
    ELSE SortByPriorityDesc(InsertByPriority(sorted, Head(rest)), Tail(rest))

\* one row of the table as the rule dict built from it
RuleOfRow(row) ==
    [pattern   |-> Strip(Or(row.pattern, <<>>)),
     unit_id   |-> Strip(Or(row.unit_id, <<>>)),
     unit_name |-> Strip(Or(row.unit_name, <<>>)),
     priority  |-> row.priority]

\* r["_re"]: the compiled pattern, None for an empty or an uncompilable one
CompileRule(r) ==
    [pattern   |-> r.pattern,
     unit_id   |-> r.unit_id,
     unit_name |-> r.unit_name,
     priority  |-> r.priority,
     re        |-> IF r.pattern # <<>> /\ ReCompiles(r.pattern) THEN r.pattern ELSE None]

load_alias_rules(csv) ==
    IF ~csv.exists THEN <<>>
    ELSE LET rules  == [i \in 1..Len(csv.rows) |-> RuleOfRow(csv.rows[i])]
             sorted == SortByPriorityDesc(<<>>, rules)
         IN  [i \in 1..Len(sorted) |-> CompileRule(sorted[i])]

\* the dict built row by row: a later row of the same author replaces an earlier one
RECURSIVE OverridesFrom(_, _)
OverridesFrom(lines, acc) ==
    IF lines = <<>> THEN acc
    ELSE LET row == Head(lines)
             aid == Strip(row.author_openalex_id)
             o   == [unit_id |-> Strip(row.unit_id), unit_name |-> Strip(row.unit_name)]
         IN  IF aid = <<>> THEN OverridesFrom(Tail(lines), acc)
             ELSE OverridesFrom(Tail(lines),
                      [a \in (DOMAIN acc) \cup {aid} |-> IF a = aid THEN o ELSE acc[a]])

load_author_overrides(csv) ==
    IF ~csv.exists THEN <<>> ELSE OverridesFrom(csv.rows, <<>>)

(***************************************************************************)
(* Unit attribution resolver                                               *)
(***************************************************************************)
\* authorship.get("institutions") or []
InstsOf(authorship) == authorship.institutions

InstScore(inst) == StrLen(Or(inst.display_name, <<>>))

\* variant: `score >= best[0]`, the last institution of greatest score wins
RECURSIVE BestFromLastWins(_, _, _)
BestFromLastWins(insts, i, best) ==
    IF i > Len(insts) THEN best
    ELSE IF best = 0 \/ InstScore(insts[i]) >= InstScore(insts[best])
         THEN BestFromLastWins(insts, i + 1, i)
         ELSE BestFromLastWins(insts, i + 1, best)

\* the loop over insts: `best` is replaced only by a strictly greater score
RECURSIVE BestFrom(_, _, _)
BestFrom(insts, i, best) ==
    IF i > Len(insts) THEN best
    ELSE IF best = 0 \/ InstScore(insts[i]) > InstScore(insts[best])
         THEN BestFrom(insts, i + 1, i)
         ELSE BestFrom(insts, i + 1, best)

BestInst(insts) == BestFrom(insts, 1, 0)

CandRor(insts) ==
    LET b == BestInst(insts)
    IN  IF b = 0 THEN None ELSE Or(insts[b].ror, insts[b].id)

CandName(insts) ==
    LET b == BestInst(insts)
    IN  IF b = 0 THEN None ELSE Or(insts[b].display_name, CandRor(insts))

\* hay = " ".join([raw_aff or "", cand_name or ""]).strip()
Hay(raw_aff, cand_name) == Strip(JoinSpace(Or(raw_aff, <<>>), Or(cand_name, <<>>)))

\* rx and rx.search(hay)
RuleFires(rule, hay) == Truthy(rule.re) /\ ReSearch(rule.re, hay)

\* index of the first rule of ALIAS_RULES that fires on hay, 0 when none does
FirstFiring(rules, hay) ==
    IF \E i \in 1..Len(rules) : RuleFires(rules[i], hay)
    THEN CHOOSE i \in 1..Len(rules) :
             /\ RuleFires(rules[i], hay)
             /\ \A j \in 1..(i - 1) : ~RuleFires(rules[j], hay)
    ELSE 0

Result(unit_id, unit_name, raw_aff, inst_ror) ==
    [unit_id |-> unit_id, unit_name |-> unit_name, raw_aff |-> raw_aff, inst_ror |-> inst_ror]

OverrideResult(aid, authorship) ==
    LET o == AUTHOR_OVERRIDES[aid]
    IN  Result(Or(o.unit_id, AuthorUnitId(aid)), Or(o.unit_name, AuthorUnitName(aid)),
               authorship.raw_affiliation_string, None)

\* variant: the candidate's display name is dropped, its id used as unit name
FallbackIdAsName(aid, raw_aff, cand_ror, cand_name) ==
    IF Truthy(cand_ror)
    THEN Result(cand_ror, cand_ror, raw_aff, cand_ror)
    ELSE Result(AuthorUnitId(aid), AuthorUnitName(aid), raw_aff, None)

\* tiers 3 and 4: the candidate institution, else the author bucket
FallbackResult(aid, raw_aff, cand_ror, cand_name) ==
    IF Truthy(cand_ror)
    THEN Result(cand_ror, Or(cand_name, cand_ror), raw_aff, cand_ror)
    ELSE Result(AuthorUnitId(aid), AuthorUnitName(aid), raw_aff, None)

\* the tiers after the override tier
AutoResult(aid, authorship) ==
    LET raw_aff   == authorship.raw_affiliation_string
        insts     == InstsOf(authorship)
        cand_ror  == CandRor(insts)
        cand_name == CandName(insts)
        hay       == Hay(raw_aff, cand_name)
        k         == IF hay # <<>> THEN FirstFiring(ALIAS_RULES, hay) ELSE 0
    IN  IF k # 0
        THEN Result(Or(ALIAS_RULES[k].unit_id, Or(cand_ror, AuthorUnitId(aid))),
                    Or(ALIAS_RULES[k].unit_name, Or(cand_name, AuthorUnitName(aid))),
                    raw_aff, cand_ror)
        ELSE FallbackResult(aid, raw_aff, cand_ror, cand_name)

\* variant: the override tier is skipped
choose_unit_ignoring_overrides(aid, authorship) == AutoResult(aid, authorship)

choose_unit_for_authorship(aid, authorship) ==
    IF aid \in DOMAIN AUTHOR_OVERRIDES
    THEN OverrideResult(aid, authorship)
    ELSE AutoResult(aid, authorship)

(***************************************************************************)
(* Inputs of the model                                                     *)
(***************************************************************************)
A1 == <<"A", "1">>
A2 == <<"A", "2">>
Authors == {A1, A2}

sVet  == <<"v", "e", "t">>
sMed  == <<"m", "e", "d">>
sVets == <<"v", "e", "t", "s">>

\* institution references: two names of equal length, a longer name without any
\* identifier, and an institution without a name
InstVet  == [display_name |-> sVet,  ror |-> <<"r", "1">>, id |-> <<"i", "1">>]
InstMed  == [display_name |-> sMed,  ror |-> None,         id |-> <<"i", "2">>]
InstVets == [display_name |-> sVets, ror |-> None,         id |-> None]
InstAnon == [display_name |-> None,  ror |-> <<"r", "4">>, id |-> <<"i", "4">>]
Insts == {InstVet, InstMed, InstVets, InstAnon}

RECURSIVE SeqsUpTo(_, _)
SeqsUpTo(S, n) ==
    IF n = 0 THEN {<<>>}
    ELSE LET shorter == SeqsUpTo(S, n - 1)
         IN  shorter \cup {Append(q, x) : q \in shorter, x \in S}

RawAffs == {None, sVet, <<" ">>}

Authorships ==
    {[author_id |-> A1, raw_affiliation_string |-> ra, institutions |-> is] :
        ra \in RawAffs, is \in SeqsUpTo(Insts, MaxInsts)}

\* the authorship passed when a work holds none of the author: the empty dict
EmptyAuthorship ==
    [author_id |-> None, raw_affiliation_string |-> None, institutions |-> <<>>]

\* rows of the alias table: two rules of equal priority on the same pattern, a
\* catch-all of higher priority, an uncompilable pattern of the highest priority
\* and a rule with blank unit fields
RowVetA == [pattern |-> sVet,    unit_id |-> <<"u", "a">>, unit_name |-> <<"U", "a">>, priority |-> 5]
RowVetB == [pattern |-> sVet,    unit_id |-> <<"u", "b">>, unit_name |-> <<"U", "b">>, priority |-> 5]
RowAny  == [pattern |-> DotStar, unit_id |-> <<"u", "c">>, unit_name |-> <<"U", "c">>, priority |-> 7]
RowBad  == [pattern |-> <<"(">>, unit_id |-> <<"u", "d">>, unit_name |-> <<"U", "d">>, priority |-> 9]
RowMed  == [pattern |-> sMed,    unit_id |-> None,         unit_name |-> None,         priority |-> 1]
AliasRows == {RowVetA, RowVetB, RowAny, RowBad, RowMed}
NoFile == [exists |-> FALSE, rows |-> <<>>]
File(lines) == [exists |-> TRUE, rows |-> lines]
AliasFiles == {File(lines) : lines \in SeqsUpTo(AliasRows, MaxRules)} \cup {NoFile}

OverrideFiles ==
    {NoFile,
     File(<<[author_openalex_id |-> A1, unit_id |-> <<"u", "o">>, unit_name |-> <<"U", "o">>]>>),
     File(<<[author_openalex_id |-> A1, unit_id |-> <<>>, unit_name |-> <<>>]>>),
     File(<<[author_openalex_id |-> A2, unit_id |-> <<"u", "p">>, unit_name |-> <<"U", "p">>]>>)}

(***************************************************************************)
(* Module import: the seeds are loaded once                                *)
(***************************************************************************)
seedVars == <<aliasCsv, overridesCsv, ALIAS_RULES, AUTHOR_OVERRIDES>>
resolverVars == <<r_aid, r_authorship, r_best, r_out>>
getVars == <<attempt, backoff, nreq, sleeps, last, resp>>
fetchVars == <<out, cursor, pages, ngets, rateSleeps>>
mainVars == <<df, roster, idx, rows, harvests>>
fileVars == <<worksCsv, globalsCsv>>
runVars == <<netUsed, retried>>
pipeVars == <<mainVars, fetchVars, sentCursor, getVars, exc, excStatus, fileVars, runVars>>
vars == <<seedVars, resolverVars, pc, pipeVars>>

NoTable == [exists |-> FALSE, rows |-> {}]

\* the state of the pipeline before main() runs
PipeIdle ==
    /\ df = <<>> /\ roster = <<>> /\ idx = 0 /\ rows = <<>> /\ harvests = <<>>
    /\ out = <<>> /\ cursor = None /\ pages = <<>> /\ ngets = 0 /\ rateSleeps = 0
    /\ sentCursor = None
    /\ attempt = 0 /\ backoff = 0 /\ nreq = 0 /\ sleeps = <<>> /\ last = 0
    /\ resp = [n |-> 0, ntrans |-> 0]
    /\ exc = "none" /\ excStatus = 0
    /\ worksCsv = NoFile /\ globalsCsv = NoTable
    /\ netUsed = FALSE /\ retried = FALSE

LoadSeeds ==
    /\ pc = "import"
    /\ ALIAS_RULES' = load_alias_rules(aliasCsv)
    /\ AUTHOR_OVERRIDES' = load_author_overrides(overridesCsv)
    /\ pc' = "start"
    /\ UNCHANGED <<aliasCsv, overridesCsv, resolverVars, pipeVars>>

(***************************************************************************)
(* The resolver as a pure function: one call on drawn arguments            *)
(***************************************************************************)
InitResolver ==
    /\ aliasCsv \in AliasFiles
    /\ overridesCsv \in OverrideFiles
    /\ ALIAS_RULES = <<>>
    /\ AUTHOR_OVERRIDES = <<>>
    /\ r_aid = A1
    /\ r_authorship \in Authorships \cup {EmptyAuthorship}
    /\ r_best = 0
    /\ r_out = None
    /\ pc = "import"
    /\ PipeIdle

Resolve ==
    /\ pc = "start"
    /\ r_out' = choose_unit_for_authorship(r_aid, r_authorship)
    /\ r_best' = IF r_aid \in DOMAIN AUTHOR_OVERRIDES THEN 0
                  ELSE BestInst(InstsOf(r_authorship))
    /\ pc' = "resolved"
    /\ UNCHANGED <<seedVars, r_aid, r_authorship, pipeVars>>

NextResolver == LoadSeeds \/ Resolve

SpecResolver == InitResolver /\ [][NextResolver]_vars

(***************************************************************************)
(* Helpers of the harvest                                                  *)
(***************************************************************************)
\* None of an Optional[int] (a year, a concept level: both are >= 0 otherwise)
NoneInt == -1

IsDigit(c) == c \in {"0", "1", "2", "3", "4", "5", "6", "7", "8", "9"}

DigitVal(c) ==
    CASE c = "0" -> 0 [] c = "1" -> 1 [] c = "2" -> 2 [] c = "3" -> 3 [] c = "4" -> 4
      [] c = "5" -> 5 [] c = "6" -> 6 [] c = "7" -> 7 [] c = "8" -> 8 [] c = "9" -> 9

\* isoparse accepts YYYY, YYYY-MM and YYYY-MM-DD (the forms the API sends)
IsoParses(d) ==
    /\ Len(d) \in {4, 7, 10}
    /\ \A i \in 1..Len(d) : IF i \in {5, 8} THEN d[i] = "-" ELSE IsDigit(d[i])

IsoYear(d) == 1000 * DigitVal(d[1]) + 100 * DigitVal(d[2]) + 10 * DigitVal(d[3]) + DigitVal(d[4])

normalize_year(pub_date, fallback_year) ==
    IF Truthy(pub_date) /\ IsoParses(pub_date) THEN IsoYear(pub_date) ELSE fallback_year

IsLetter(c) == c \in {"c", "x", "C", "X"}
UpperOf(c) == CASE c = "c" -> "C" [] c = "x" -> "X" [] OTHER -> c
LowerOf(c) == CASE c = "C" -> "c" [] c = "X" -> "x" [] OTHER -> c

\* cid.split("/")[-1]
RECURSIVE TailAfterSlash(_)
TailAfterSlash(t) ==
    IF \E i \in 1..Len(t) : t[i] = "/"
    THEN TailAfterSlash(SubSeq(t, (CHOOSE i \in 1..Len(t) : t[i] = "/") + 1, Len(t)))
    ELSE t

\* tail.replace("_", " ").title()
TitleOf(t) ==
    LET u == [i \in 1..Len(t) |-> IF t[i] = "_" THEN " " ELSE t[i]]
    IN  [i \in 1..Len(u) |->
            IF i = 1 \/ ~IsLetter(u[i - 1]) THEN UpperOf(u[i]) ELSE LowerOf(u[i])]

humanize_concept_id(cid) == IF ~Truthy(cid) THEN None ELSE TitleOf(TailAfterSlash(cid))

(***************************************************************************)
(* Works the API may return                                                *)
(***************************************************************************)
ConceptBio  == [id |-> <<"o", "/", "c", "1">>, level |-> 0, display_name |-> <<"B", "i", "o">>]
ConceptVet  == [id |-> <<"o", "/", "c", "_", "x">>, level |-> 1, display_name |-> None]
ConceptNoId == [id |-> None, level |-> 2, display_name |-> <<"N">>]
ConceptNoLv == [id |-> <<"o", "/", "c", "3">>, level |-> NoneInt, display_name |-> <<"L">>]

\* co-authored by A1 and A2, two concepts
Work1 ==
    [id |-> <<"W", "1">>,
     publication_date |-> <<"2", "0", "2", "0", "-", "0", "5", "-", "0", "1">>,
     from_publication_date |-> None, host_published_date |-> None,
     publication_year |-> 2020,
     authorships |->
        <<[author_id |-> A1, raw_affiliation_string |-> sVet, institutions |-> <<InstVet, InstMed>>],
          [author_id |-> A2, raw_affiliation_string |-> None, institutions |-> <<InstMed>>]>>,
     concepts |-> <<ConceptBio, ConceptVet>>]

\* by A1 alone, no date, one valid concept among three
Work2 ==
    [id |-> <<"W", "2">>,
     publication_date |-> None, from_publication_date |-> None, host_published_date |-> None,
     publication_year |-> 2019,
     authorships |->
        <<[author_id |-> A1, raw_affiliation_string |-> None, institutions |-> <<>>]>>,
     concepts |-> <<ConceptNoId, ConceptBio, ConceptNoLv>>]

\* no authorship at all, an unparsable date
Work3 ==
    [id |-> <<"W", "3">>,
     publication_date |-> <<"s", "o", "o", "n">>,
     from_publication_date |-> None, host_published_date |-> None,
     publication_year |-> 2021,
     authorships |-> <<>>,
     concepts |-> <<ConceptBio>>]

\* by A1 alone, with an affiliation and an institution; dated by its second
\* date field, in the year of Work1
Work4 ==
    [id |-> <<"W", "4">>,
     publication_date |-> None, from_publication_date |-> <<"2", "0", "2", "0">>,
     host_published_date |-> None,
     publication_year |-> 2018,
     authorships |->
        <<[author_id |-> A1, raw_affiliation_string |-> sVet, institutions |-> <<InstVet>>]>>,
     concepts |-> <<ConceptVet>>]

\* a work without concepts
Work5 ==
    [id |-> <<"W", "5">>,
     publication_date |-> None, from_publication_date |-> None, host_published_date |-> None,
     publication_year |-> 2022,
     authorships |->
        <<[author_id |-> A1, raw_affiliation_string |-> None, institutions |-> <<>>]>>,
     concepts |-> <<>>]

\* "results" of the n-th page the server delivers for the works of author aid
PageResults(aid, n) ==
    IF aid = A1
    THEN CASE n = 1 -> <<Work1, Work5>> [] n = 2 -> <<Work2, Work3>> [] OTHER -> <<>>
    ELSE CASE n = 1 -> <<Work3, Work1, Work4>> [] n = 2 -> <<>> [] OTHER -> <<Work2>>

(***************************************************************************)
(* harvest_for_author, after fetch_all returned                            *)
(***************************************************************************)
\* variant: without an authorship of aid the work's first authorship is taken
AuSelfOrFirst(aid, w) ==
    IF \E i \in 1..Len(w.authorships) : w.authorships[i].author_id = aid
    THEN w.authorships[CHOOSE i \in 1..Len(w.authorships) :
             /\ w.authorships[i].author_id = aid
             /\ \A j \in 1..(i - 1) : w.authorships[j].author_id # aid]
    ELSE IF w.authorships = <<>> THEN EmptyAuthorship ELSE w.authorships[1]

\* the first authorship of the work whose author id is aid, else the empty dict
AuSelf(aid, w) ==
    IF \E i \in 1..Len(w.authorships) : w.authorships[i].author_id = aid
    THEN w.authorships[CHOOSE i \in 1..Len(w.authorships) :
             /\ w.authorships[i].author_id = aid
             /\ \A j \in 1..(i - 1) : w.authorships[j].author_id # aid]
    ELSE EmptyAuthorship

PubDate(w) == Or(w.publication_date, Or(w.from_publication_date, w.host_published_date))

\* variant: `if cid`, a concept without level is kept
ConceptValidIdOnly(c) == Truthy(c.id)

\* `if cid and clevel is not None`
ConceptValid(c) == Truthy(c.id) /\ c.level # NoneInt

RowOf(aid, w, c) ==
    LET u == choose_unit_for_authorship(aid, AuSelf(aid, w))
    IN  [work_id                |-> w.id,
         published_date         |-> PubDate(w),
         year                   |-> normalize_year(PubDate(w), w.publication_year),
         author_openalex_id     |-> aid,
         raw_affiliation        |-> u.raw_aff,
         unit_id_auto           |-> u.unit_id,
         unit_name_auto         |-> u.unit_name,
         institution_ror        |-> u.inst_ror,
         concept_id             |-> c.id,
         concept_level          |-> c.level,
         concept_label_openalex |-> Or(c.display_name, humanize_concept_id(c.id))]

RECURSIVE RowsOfConcepts(_, _, _)
RowsOfConcepts(aid, w, cs) ==
    IF cs = <<>> THEN <<>>
    ELSE (IF ConceptValid(Head(cs)) THEN <<RowOf(aid, w, Head(cs))>> ELSE <<>>)
         \o RowsOfConcepts(aid, w, Tail(cs))

RECURSIVE harvest_rows(_, _)
harvest_rows(aid, works) ==
    IF works = <<>> THEN <<>>
    ELSE RowsOfConcepts(aid, Head(works), Head(works).concepts)
         \o harvest_rows(aid, Tail(works))

(***************************************************************************)
(* Aggregation: global denominators by concept and year                    *)
(***************************************************************************)
\* variant: the rows of the group are counted (agg "count")
AggregateCountingRows(rs) ==
    {[concept_id   |-> rs[i].concept_id,
      period       |-> rs[i].year,
      global_works |-> Cardinality({k \in 1..Len(rs) : /\ rs[k].concept_id = rs[i].concept_id
                                                     /\ rs[k].year = rs[i].year})]
        : i \in 1..Len(rs)}

\* groupby(["concept_id", "year"], dropna=False).agg(nunique of work_id)
Aggregate(rs) ==
    {[concept_id   |-> rs[i].concept_id,
      period       |-> rs[i].year,
      global_works |-> Cardinality({rs[j].work_id : j \in
                           {k \in 1..Len(rs) : /\ rs[k].concept_id = rs[i].concept_id
                                               /\ rs[k].year = rs[i].year}} \ {None})]
        : i \in 1..Len(rs)}

(***************************************************************************)
(* Bounds and inputs of the pipeline                                       *)
(***************************************************************************)
\* longest roster file, and the number of pages after which the server has
\* delivered its last page
MaxRoster == 2
MaxPages == 2

\* status codes the server answers with
Statuses == {200, 304, 403, 404, 429, 500, 502, 503, 504}

\* the status classes as the HTTP client's contract names them
TransientStatuses == {429, 500, 502, 503, 504}
IsSuccess(st) == 0 < st /\ st < 400

\* cells of the roster's OpenAlexID column: ids, the text "nan", a blank cell and
\* a missing value (None)
RosterCells == {A1, <<" ", "A", "2">>, <<"n", "a", "n">>, <<" ">>, None}
RosterFiles ==
    {[hasColumn |-> h, cells |-> cs] : h \in BOOLEAN, cs \in SeqsUpTo(RosterCells, MaxRoster)}

StarCursor == <<"*">>

\* the cursor the server sends with its n-th page when more pages follow
CursorAfter(n) == <<"c", CASE n = 1 -> "1" [] n = 2 -> "2" [] OTHER -> "3">>

\* the seed files the pipeline is run with
PipelineSeeds ==
    {[aliases |-> NoFile, overrides |-> NoFile],
     [aliases |-> File(<<RowMed, RowVetA, RowAny>>),
      overrides |-> File(<<[author_openalex_id |-> A2, unit_id |-> <<"u", "p">>,
                            unit_name |-> <<>>]>>)]}

(***************************************************************************)
(* _get                                                                    *)
(***************************************************************************)
\* variants: a retry budget that is off by one, either way
RetriesOneMore == 6 + 1
RetriesOneLess == 6 - 1

max_retries == 6
BackoffCap == 30

Min(a, b) == IF a <= b THEN a ELSE b

\* variant: 403 retried like a transient status
TransientOr403(st) == st \in {429, 500, 502, 503, 504, 403}

\* r.status_code in (429, 500, 502, 503, 504)
Transient(st) == st \in {429, 500, 502, 503, 504}

\* r.raise_for_status() raises HTTPError
RaisesForStatus(st) == 400 <= st /\ st < 600

\* variant: the backoff doubles without a cap
NextBackoffUncapped(b) == b * 2

\* backoff = min(backoff * 2, 30)
NextBackoff(b) == Min(b * 2, BackoffCap)

\* no _get call is active
GetIdle ==
    /\ attempt' = 0
    /\ backoff' = 0
    /\ nreq' = 0
    /\ sleeps' = <<>>
    /\ last' = 0
    /\ resp' = [n |-> 0, ntrans |-> 0]

\* variant: the retry state is kept across calls (attempts used and backoff
\* reached by the call before are carried into the next one)
ResumeGet ==
    /\ attempt' = attempt
    /\ backoff' = IF backoff = 0 THEN 1 ELSE backoff
    /\ nreq' = 0
    /\ sleeps' = <<>>
    /\ last' = 0
    /\ resp' = [n |-> 0, ntrans |-> 0]

\* the local state of a fresh _get call
BeginGet ==
    /\ attempt' = 0
    /\ backoff' = 1
    /\ nreq' = 0
    /\ sleeps' = <<>>
    /\ last' = 0
    /\ resp' = [n |-> 0, ntrans |-> 0]

\* one iteration of the retry loop whose request is answered with status st
GetResponse(st) ==
    /\ nreq' = nreq + 1
    /\ netUsed' = TRUE
    /\ sentCursor' = cursor
    /\ last' = st
    /\ resp' = [n |-> resp.n + 1,
                ntrans |-> resp.ntrans + (IF st \in TransientStatuses THEN 1 ELSE 0)]
    /\ IF Transient(st)
       THEN /\ sleeps' = Append(sleeps, backoff)
            /\ backoff' = NextBackoff(backoff)
            /\ attempt' = attempt + 1
            /\ IF attempt + 1 < max_retries
               THEN pc' = "get" /\ UNCHANGED <<exc, excStatus>>
               ELSE \* the loop is exhausted: r.raise_for_status() on the last response
                    IF RaisesForStatus(st)
                    THEN pc' = "raise" /\ exc' = "HTTPError" /\ excStatus' = st
                    ELSE pc' = "raise" /\ exc' = "AttributeError" /\ excStatus' = 0
       ELSE /\ UNCHANGED <<sleeps, backoff, attempt>>
            /\ IF st = 403 \/ RaisesForStatus(st)
               THEN pc' = "raise" /\ exc' = "HTTPError" /\ excStatus' = st
               ELSE pc' = "got" /\ UNCHANGED <<exc, excStatus>>
    /\ retried' = (retried \/ (pc' # "get" /\ resp'.ntrans > 0))

GetAttempt ==
    /\ pc = "get"
    /\ \E st \in Statuses : GetResponse(st)
    /\ UNCHANGED <<seedVars, resolverVars, mainVars, fetchVars, fileVars>>

\* SESSION.get itself raises: no response (connection error, timeout)
GetConnectionError ==
    /\ pc = "get"
    /\ nreq' = nreq + 1
    /\ netUsed' = TRUE
    /\ retried' = (retried \/ resp.ntrans > 0)
    /\ sentCursor' = cursor
    /\ pc' = "raise"
    /\ exc' = "ConnectionError"
    /\ excStatus' = 0
    /\ UNCHANGED <<seedVars, resolverVars, mainVars, fetchVars, fileVars,
                   attempt, backoff, sleeps, last, resp>>

(***************************************************************************)
(* fetch_all                                                               *)
(***************************************************************************)
\* variant: `if cursor is None: break`, an empty cursor is followed
CursorEndsOnlyOnNone(c) == c = None

\* `if not cursor: break`
CursorEnds(c) == ~Truthy(c)

\* variant: the page is put in front of the pages fetched before it
ExtendInFront(acc, items) == items \o acc

\* out.extend(...)
Extend(acc, items) == acc \o items

\* variant: time.sleep(RATE) placed before the break, a sleep after every page
SleepsAfterEveryPage(c) == 1

\* time.sleep(RATE) is reached only when the loop did not break on the cursor
SleepsAfterPage(c) == IF CursorEnds(c) THEN 0 ELSE 1

\* no fetch_all call is active
FetchIdle ==
    /\ out' = <<>>
    /\ cursor' = None
    /\ pages' = <<>>
    /\ ngets' = 0
    /\ rateSleeps' = 0
    /\ sentCursor' = None

\* the next cursors the server may send with the page it is about to deliver
NextCursors ==
    IF Len(pages) + 1 >= MaxPages THEN {None, <<>>}
    ELSE {None, <<>>, CursorAfter(Len(pages) + 1)}

\* the response of _get parses to a page: extend out, read the cursor, stop or go on
FetchPage ==
    /\ pc = "got"
    /\ \E nc \in NextCursors :
       LET results == PageResults(roster[idx], Len(pages) + 1) IN
          /\ pages' = Append(pages, [results |-> results, next_cursor |-> nc])
          /\ out' = Extend(out, results)
          /\ cursor' = nc
          /\ rateSleeps' = rateSleeps + SleepsAfterPage(nc)
          /\ IF CursorEnds(nc)
             THEN /\ pc' = "fetched"
                  /\ GetIdle
                  /\ UNCHANGED ngets
             ELSE /\ ngets' = ngets + 1
                  /\ BeginGet
                  /\ pc' = "get"
    /\ UNCHANGED <<seedVars, resolverVars, mainVars, sentCursor, exc, excStatus, fileVars,
                   runVars>>

\* r.json() raises: the body is no JSON
FetchBadJson ==
    /\ pc = "got"
    /\ pc' = "raise"
    /\ exc' = "JSONDecodeError"
    /\ excStatus' = 0
    /\ GetIdle
    /\ UNCHANGED <<seedVars, resolverVars, mainVars, fetchVars, sentCursor, fileVars, runVars>>

(***************************************************************************)
(* main                                                                    *)
(***************************************************************************)
\* variant: the text "nan" is kept as an identifier
RECURSIVE RosterIdsKeepingNan(_)
RosterIdsKeepingNan(cells) ==
    IF cells = <<>> THEN <<>>
    ELSE LET c == Head(cells)
             i == Strip(c)
         IN  (IF c # None /\ i # <<>> THEN <<i>> ELSE <<>>)
             \o RosterIdsKeepingNan(Tail(cells))

\* ids = [str(x).strip() for x in df["OpenAlexID"].dropna()], blanks and "nan" dropped
RECURSIVE RosterIds(_)
RosterIds(cells) ==
    IF cells = <<>> THEN <<>>
    ELSE LET c == Head(cells)
             i == Strip(c)
         IN  (IF c # None /\ i # <<>> /\ i # <<"n", "a", "n">> THEN <<i>> ELSE <<>>)
             \o RosterIds(Tail(cells))

\* main calls read_roster_ids, which reads the roster file: pd.read_csv
LoadRoster ==
    /\ pc = "start"
    /\ \E csv \in RosterFiles : df' = <<csv>>
    /\ pc' = "read_roster"
    /\ UNCHANGED <<seedVars, resolverVars, roster, idx, rows, harvests, fetchVars, sentCursor,
                   getVars, exc, excStatus, fileVars, runVars>>

\* read_roster_ids on the frame it read: SystemExit on a missing column or an
\* empty list of ids; else the ids are returned to main, whose loop begins
ReadRoster ==
    /\ pc = "read_roster"
    /\ IF ~df[1].hasColumn \/ RosterIds(df[1].cells) = <<>>
       THEN pc' = "config_error" /\ UNCHANGED <<df, roster, idx>>
       ELSE pc' = "main" /\ roster' = RosterIds(df[1].cells) /\ idx' = 1 /\ df' = <<>>
    /\ UNCHANGED <<seedVars, resolverVars, rows, harvests, fetchVars, sentCursor, getVars,
                   exc, excStatus, fileVars, runVars>>

\* the loop takes the next author: harvest_for_author calls fetch_all, which
\* calls _get for the first page
StartAuthor ==
    /\ pc = "main"
    /\ idx <= Len(roster)
    /\ out' = <<>>
    /\ cursor' = StarCursor
    /\ pages' = <<>>
    /\ ngets' = 1
    /\ rateSleeps' = 0
    /\ BeginGet
    /\ pc' = "get"
    /\ UNCHANGED <<seedVars, resolverVars, mainVars, sentCursor, exc, excStatus, fileVars,
                   runVars>>

Harvest(aid, status, works) == [aid |-> aid, status |-> status, works |-> works]

\* fetch_all returned: the rows of the author's works are appended
ExtendRows(rs, aid, works) == rs \o harvest_rows(aid, works)

HarvestDone ==
    /\ pc = "fetched"
    /\ rows' = ExtendRows(rows, roster[idx], out)
    /\ harvests' = Append(harvests, Harvest(roster[idx], "ok", out))
    /\ idx' = idx + 1
    /\ pc' = "main"
    /\ FetchIdle
    /\ UNCHANGED <<seedVars, resolverVars, df, roster, getVars, exc, excStatus, fileVars,
                   runVars>>

\* `except requests.HTTPError`: log, cool down, continue with the next author
HandleHTTPError ==
    /\ pc = "raise"
    /\ exc = "HTTPError"
    /\ harvests' = Append(harvests, Harvest(roster[idx], "failed", <<>>))
    /\ idx' = idx + 1
    /\ pc' = "main"
    /\ FetchIdle
    /\ GetIdle
    /\ exc' = "none"
    /\ excStatus' = 0
    /\ UNCHANGED <<seedVars, resolverVars, df, roster, rows, fileVars, runVars>>

\* any other exception is not caught: main ends with a traceback
Crash ==
    /\ pc = "raise"
    /\ exc # "HTTPError"
    /\ harvests' = Append(harvests, Harvest(roster[idx], "failed", <<>>))
    /\ pc' = "crashed"
    /\ UNCHANGED <<seedVars, resolverVars, df, roster, idx, rows, fetchVars, sentCursor,
                   getVars, exc, excStatus, fileVars, runVars>>

\* after the loop: works.csv
WriteWorks ==
    /\ pc = "main"
    /\ idx > Len(roster)
    /\ worksCsv' = File(rows)
    /\ pc' = "write_globals"
    /\ UNCHANGED <<seedVars, resolverVars, mainVars, fetchVars, sentCursor, getVars,
                   exc, excStatus, globalsCsv, runVars>>

\* globals_concepts.csv
WriteGlobals ==
    /\ pc = "write_globals"
    /\ globalsCsv' = [exists |-> TRUE, rows |-> Aggregate(rows)]
    /\ pc' = "done"
    /\ UNCHANGED <<seedVars, resolverVars, mainVars, fetchVars, sentCursor, getVars,
                   exc, excStatus, worksCsv, runVars>>

Init ==
    /\ \E seeds \in PipelineSeeds :
          aliasCsv = seeds.aliases /\ overridesCsv = seeds.overrides
    /\ ALIAS_RULES = <<>>
    /\ AUTHOR_OVERRIDES = <<>>
    /\ r_aid = None /\ r_authorship = EmptyAuthorship /\ r_best = 0 /\ r_out = None
    /\ pc = "import"
    /\ PipeIdle

Next ==
    \/ LoadSeeds
    \/ LoadRoster
    \/ ReadRoster
    \/ StartAuthor
    \/ GetAttempt
    \/ GetConnectionError
    \/ FetchPage
    \/ FetchBadJson
    \/ HarvestDone
    \/ HandleHTTPError
    \/ Crash
    \/ WriteWorks
    \/ WriteGlobals

Spec == Init /\ [][Next]_vars

(***************************************************************************)
(* Properties of the resolver                                              *)
(***************************************************************************)
Resolved == pc = "resolved"
HasOverride == r_aid \in DOMAIN AUTHOR_OVERRIDES
r_insts == r_authorship.institutions
r_raw == r_authorship.raw_affiliation_string

\* length of an institution's display name, a missing name counting as 0
NameLen(inst) == IF inst.display_name = None THEN 0 ELSE Len(inst.display_name)

\* the search subject of the alias tier
Subject == Hay(r_raw, CandName(r_insts))

\* row i of the alias table, as written in the file, matches the subject
RowMatches(i, subject) ==
    LET pat == Strip(Or(aliasCsv.rows[i].pattern, <<>>))
    IN  pat # <<>> /\ ReCompiles(pat) /\ ReSearch(pat, subject)

MatchingRows(subject) == {i \in 1..Len(aliasCsv.rows) : RowMatches(i, subject)}

\* the matching row of highest priority, the first in input order among equals
TopRow(M) ==
    CHOOSE i \in M : \A j \in M :
        \/ aliasCsv.rows[j].priority < aliasCsv.rows[i].priority
        \/ aliasCsv.rows[j].priority = aliasCsv.rows[i].priority /\ j >= i

\* the result the alias tier returns for row i: the row's unit, a blank field
\* replaced by the candidate's or the author bucket's
RowUnit(i) ==
    Result(Or(Strip(Or(aliasCsv.rows[i].unit_id, <<>>)),
              Or(CandRor(r_insts), AuthorUnitId(r_aid))),
           Or(Strip(Or(aliasCsv.rows[i].unit_name, <<>>)),
              Or(CandName(r_insts), AuthorUnitName(r_aid))),
           r_raw, CandRor(r_insts))

\* C7: for an author with an override rule the resolver returns that rule's unit
\* id and name (the synthetic author bucket's for a blank field), whatever the
\* institutions, the affiliation string and the alias rules are
TierOnePrecedence ==
    (Resolved /\ HasOverride) =>
        LET o == AUTHOR_OVERRIDES[r_aid]
        IN  /\ r_out.unit_id = IF o.unit_id = <<>> THEN AuthorUnitId(r_aid) ELSE o.unit_id
            /\ r_out.unit_name = IF o.unit_name = <<>> THEN AuthorUnitName(r_aid) ELSE o.unit_name

\* C7 witness: an overridden author resolved on an authorship with institutions
\* and an alias rule that matches its subject
TierOneWitness ==
    /\ Resolved /\ HasOverride
    /\ AUTHOR_OVERRIDES[r_aid].unit_id # <<>>
    /\ r_insts # <<>>
    /\ MatchingRows(Subject) # {}

\* the loaded rules are the rows in non-increasing priority order, rows of equal
\* priority in input order
SortedStable ==
    LET n == Len(aliasCsv.rows)
    IN  /\ Len(ALIAS_RULES) = n
        /\ \E perm \in [1..n -> 1..n] :
              /\ \A k, l \in 1..n : k # l => perm[k] # perm[l]
              /\ \A k \in 1..n : ALIAS_RULES[k] = CompileRule(RuleOfRow(aliasCsv.rows[perm[k]]))
              /\ \A k, l \in 1..n : k < l =>
                    \/ aliasCsv.rows[perm[k]].priority > aliasCsv.rows[perm[l]].priority
                    \/ /\ aliasCsv.rows[perm[k]].priority = aliasCsv.rows[perm[l]].priority
                       /\ perm[k] < perm[l]

\* C8 as stated: the rules are ordered by priority, ties in input order, and for
\* ANY search subject matched by two or more rules the resolver returns the unit
\* of the matching rule of highest priority, the first in input order among equals
AliasPrecedenceAnySubject ==
    /\ (pc # "import" /\ aliasCsv.exists) => SortedStable
    /\ (Resolved /\ ~HasOverride /\ Cardinality(MatchingRows(Subject)) >= 2) =>
           r_out = RowUnit(TopRow(MatchingRows(Subject)))

\* C8 as amended: the same for any NON-EMPTY search subject; an empty subject is
\* never tested against the rules
AliasPrecedence ==
    /\ (pc # "import" /\ aliasCsv.exists) => SortedStable
    /\ (Resolved /\ ~HasOverride /\ Subject # <<>>
          /\ Cardinality(MatchingRows(Subject)) >= 2) =>
           r_out = RowUnit(TopRow(MatchingRows(Subject)))

\* C8 witness: a non-empty subject matched by two rules, the winner not being the
\* first matching row of the file
AliasPrecedenceWitness ==
    /\ Resolved /\ ~HasOverride /\ Subject # <<>>
    /\ Cardinality(MatchingRows(Subject)) >= 2
    /\ \E i \in MatchingRows(Subject) : i < TopRow(MatchingRows(Subject))

\* C9: without an override and with at least one institution, the candidate is
\* the institution of longest display name, the first of the list among equals,
\* and its identifier is the institution id returned
CandidateIsLongestFirst ==
    (Resolved /\ ~HasOverride /\ r_insts # <<>>) =>
        /\ r_best \in 1..Len(r_insts)
        /\ \A j \in 1..Len(r_insts) :
              \/ NameLen(r_insts[j]) < NameLen(r_insts[r_best])
              \/ NameLen(r_insts[j]) = NameLen(r_insts[r_best]) /\ j >= r_best
        /\ Truthy(Or(r_insts[r_best].ror, r_insts[r_best].id)) =>
              r_out.inst_ror = Or(r_insts[r_best].ror, r_insts[r_best].id)

\* C9 witness: two institutions share the longest name and the first is taken
CandidateWitness ==
    /\ Resolved /\ ~HasOverride /\ Len(r_insts) >= 2
    /\ r_best = 1
    /\ r_insts[1] # r_insts[2]
    /\ NameLen(r_insts[1]) = NameLen(r_insts[2])

\* the author bucket
Bucket == Result(AuthorUnitId(r_aid), AuthorUnitName(r_aid), r_raw, None)

\* the candidate's identifier: its registry id, else its raw identifier
BestId == Or(r_insts[r_best].ror, r_insts[r_best].id)

NoAliasMatch == MatchingRows(Subject) = {}

\* C10 as stated: with no override and no matching alias rule the bucket is
\* returned only if there is no institution at all; whenever there is one, the
\* candidate's identifier is unit id and institution id and its display name (or
\* that id) the unit name
FallbackByInstitutionPresence ==
    (Resolved /\ ~HasOverride /\ NoAliasMatch) =>
        IF r_insts = <<>> THEN r_out = Bucket
        ELSE r_out = Result(BestId, Or(r_insts[r_best].display_name, BestId), r_raw, BestId)

\* C10 as amended: the bucket is returned if there is no institution or the
\* candidate has neither registry id nor raw identifier; whenever the candidate
\* has one, it is unit id and institution id and the display name (or that id)
\* the unit name
FallbackByCandidateId ==
    (Resolved /\ ~HasOverride /\ NoAliasMatch) =>
        IF r_insts = <<>> \/ ~Truthy(BestId) THEN r_out = Bucket
        ELSE r_out = Result(BestId, Or(r_insts[r_best].display_name, BestId), r_raw, BestId)

\* C10 witness: no alias matches and the candidate, which has no registry id, is
\* returned under its raw identifier
FallbackWitness ==
    /\ Resolved /\ ~HasOverride /\ NoAliasMatch
    /\ r_insts # <<>>
    /\ r_insts[r_best].ror = None
    /\ Truthy(r_insts[r_best].id)
    /\ r_out.unit_id = r_insts[r_best].id

\* the institution of longest display name, the first of the list among equals
LongestFirst(insts) ==
    CHOOSE i \in 1..Len(insts) : \A j \in 1..Len(insts) :
        \/ NameLen(insts[j]) < NameLen(insts[i])
        \/ NameLen(insts[j]) = NameLen(insts[i]) /\ j >= i

\* C11: whichever tier decides the unit (override, alias rule, candidate), the
\* institution id returned for an authorship with institutions is the identifier
\* of its longest-named institution
InstitutionIdTierIndependent ==
    (Resolved /\ r_insts # <<>>) =>
        LET b == r_insts[LongestFirst(r_insts)]
        IN  r_out.inst_ror = Or(b.ror, b.id)

(***************************************************************************)
(* Properties of the pipeline                                              *)
(***************************************************************************)
\* the run is over: main returned or died with a traceback
RunEnded == pc \in {"done", "crashed"}

\* a _get call is active, or has just returned or raised
InGet == pc \in {"get", "got"} \/ (pc = "raise" /\ exc # "JSONDecodeError")

RECURSIVE RowsOfHarvests(_)
RowsOfHarvests(hs) ==
    IF hs = <<>> THEN <<>>
    ELSE (IF Head(hs).status = "ok" THEN harvest_rows(Head(hs).aid, Head(hs).works) ELSE <<>>)
         \o RowsOfHarvests(Tail(hs))

\* C1: whatever error ends the retrieval of one author, every roster author is
\* still harvested (or found failing) and the run ends with both artifacts written
FailureIsolation ==
    RunEnded =>
        /\ pc = "done"
        /\ Len(harvests) = Len(roster)
        /\ \A i \in 1..Len(roster) : harvests[i].aid = roster[i]
        /\ worksCsv.exists /\ globalsCsv.exists

\* C2: when the run is over, no collected row is of an author whose harvest
\* failed, and every other roster author has contributed exactly the rows of the
\* works the server delivered for it
PerAuthorAllOrNothing ==
    RunEnded =>
        /\ \A i \in 1..Len(harvests) : harvests[i].status = "failed" =>
              \A k \in 1..Len(rows) : rows[k].author_openalex_id # harvests[i].aid
        /\ Len(harvests) = Len(roster)
        /\ rows = RowsOfHarvests(harvests)

\* C3: after k < 6 transient answers and nothing else the call has slept k times
\* and goes on to request k+1; when that request is answered with success the
\* call returns that response after exactly k+1 requests and k sleeps
RetrySuccessPath ==
    /\ (InGet /\ nreq = resp.n /\ resp.ntrans = resp.n /\ resp.n < 6) =>
          pc = "get" /\ Len(sleeps) = resp.n
    /\ (InGet /\ resp.n = resp.ntrans + 1 /\ IsSuccess(last)) =>
          pc = "got" /\ nreq = resp.ntrans + 1 /\ Len(sleeps) = resp.ntrans

\* C3 witness: five transient answers, then success
RetrySuccessWitness ==
    pc = "got" /\ resp.ntrans = 5 /\ resp.n = 6 /\ last = 200 /\ Len(sleeps) = 5

\* C4: a call issues at most 6 requests; six transient answers end it with the
\* HTTPError of the sixth response; it returns only a successful response
RetryBound ==
    /\ nreq <= 6
    /\ (InGet /\ resp.n = 6 /\ resp.ntrans = 6) =>
          pc = "raise" /\ exc = "HTTPError" /\ excStatus = last
    /\ pc = "got" => IsSuccess(last)

\* C4 witness: the sixth transient answer has ended the call with its error
RetryBoundWitness ==
    pc = "raise" /\ resp.ntrans = 6 /\ nreq = 6 /\ exc = "HTTPError" /\ last = 503

\* C5: an error status outside the transient set ends the call at once with an
\* HTTPError: no request and no sleep follows that response
NoRetryOfNonTransient ==
    (last # 0 /\ ~IsSuccess(last) /\ last \notin TransientStatuses) =>
        /\ pc = "raise" /\ exc = "HTTPError" /\ excStatus = last
        /\ nreq = resp.n
        /\ Len(sleeps) = resp.ntrans

\* C5 witness: a 403 received after two transient retries
NoRetryWitness ==
    pc = "raise" /\ last = 403 /\ resp.ntrans = 2 /\ nreq = 3 /\ Len(sleeps) = 2

\* a cursor that is null, absent or empty
NoCursor(c) == c \in {None, <<>>}

PaginationInv ==
    \* a request is made only while the page before it carried a cursor
    /\ pc \in {"get", "got"} => ~NoCursor(cursor) /\ ngets = Len(pages) + 1
    \* the page without next cursor is the last one received and requested
    /\ \A i \in 1..Len(pages) : NoCursor(pages[i].next_cursor) =>
          i = Len(pages) /\ ngets = i /\ pc = "fetched"
    \* page 1 without next cursor: one request, page 1's results
    /\ (pages # <<>> /\ NoCursor(pages[1].next_cursor)) =>
          ngets = 1 /\ out = pages[1].results

\* steps left to a fetch_all call: pages the server may still deliver, each
\* costing at most max_retries requests and one parse
FetchMeasure ==
    (MaxPages - Len(pages)) * (max_retries + 2)
        + (IF pc = "get" THEN max_retries + 1 - attempt ELSE 0)

FetchStepDecreases ==
    (pc \in {"get", "got"} /\ pc' \in {"get", "got"}) =>
        FetchMeasure' < FetchMeasure /\ FetchMeasure' >= 0

\* C6: fetch_all stops at the first page without next cursor and requests
\* nothing after it; with page 1 such a page it makes one request and returns
\* page 1's results; and it terminates, every step of a call decreasing a
\* natural number, when the server sends such a page within MaxPages pages
PaginationTerminates == []PaginationInv /\ [][FetchStepDecreases]_vars

\* C6 witness: page 1 came with an empty next cursor and its results are returned
PaginationWitness ==
    /\ pc = "fetched" /\ Len(pages) = 1
    /\ pages[1].next_cursor = <<>>
    /\ out = pages[1].results /\ out # <<>>

\* a cell of the OpenAlexID column that yields an identifier: a value that is
\* neither missing nor blank nor the text "nan"
UsableCell(c) == c # None /\ Strip(c) # <<>> /\ Strip(c) # <<"n", "a", "n">>

\* a roster without the OpenAlexID column or without any usable identifier
BadRoster(f) == ~f.hasColumn \/ \A i \in 1..Len(f.cells) : ~UsableCell(f.cells[i])

\* no request has ever been issued and neither artifact is written
NoEffects == ~netUsed /\ ~worksCsv.exists /\ ~globalsCsv.exists

ConfigErrorStep ==
    \* a bad roster ends read_roster_ids with the fatal error
    /\ (pc = "read_roster" /\ BadRoster(df[1])) => pc' = "config_error" /\ NoEffects'
    \* the fatal error ends the run: nothing happens after it
    /\ pc = "config_error" => UNCHANGED vars

\* C12: a roster without the OpenAlexID column, or without a usable identifier
\* once missing values, blanks and "nan" are dropped, ends the run in the fatal
\* configuration error; no HTTP request has been issued before it and none is
\* after it, and neither works.csv nor globals_concepts.csv is ever written
ConfigErrorsPrecedeEffects ==
    /\ [](pc \in {"read_roster", "config_error"} => NoEffects)
    /\ [][ConfigErrorStep]_vars

\* C12 witness: the fatal error on a roster that has the column, its two cells
\* being a blank and the text "nan"
ConfigErrorWitness ==
    /\ pc = "config_error"
    /\ df[1].hasColumn
    /\ Len(df[1].cells) = 2
    /\ \E i \in 1..2 : df[1].cells[i] = <<"n", "a", "n">>
    /\ NoEffects

\* the concepts of a work that have a non-empty identifier and a level, in the
\* work's order
ValidConcepts(w) ==
    SelectSeq(w.concepts, LAMBDA c : c.id \notin {None, <<>>} /\ c.level # NoneInt)

\* number of rows due for the first k of the works
RECURSIVE RowsDue(_, _)
RowsDue(works, k) ==
    IF k = 0 THEN 0 ELSE RowsDue(works, k - 1) + Len(ValidConcepts(works[k]))

\* emitted holds, work after work, one row per valid concept of the work in the
\* work's concept order; the rows of one work agree in everything but the
\* concept fields
IsRowExpansion(emitted, aid, works) ==
    /\ Len(emitted) = RowsDue(works, Len(works))
    /\ \A k \in 1..Len(works) :
          LET cs    == ValidConcepts(works[k])
              first == RowsDue(works, k - 1) + 1
          IN  \A i \in 1..Len(cs) :
                LET row == emitted[first + i - 1]
                IN  /\ row.work_id = works[k].id
                    /\ row.author_openalex_id = aid
                    /\ row.concept_id = cs[i].id
                    /\ row.concept_level = cs[i].level
                    /\ row.year = emitted[first].year
                    /\ row.published_date = emitted[first].published_date
                    /\ row.raw_affiliation = emitted[first].raw_affiliation
                    /\ row.unit_id_auto = emitted[first].unit_id_auto
                    /\ row.unit_name_auto = emitted[first].unit_name_auto
                    /\ row.institution_ror = emitted[first].institution_ror

\* the rows the step has appended to rows
Emitted == SubSeq(rows', Len(rows) + 1, Len(rows'))

\* C13: the rows harvest_for_author emits for the works fetch_all returned are
\* one row per concept with a non-empty identifier and a non-null level, none
\* for the other concepts, in the order of the works and of their concepts, the
\* rows of one work carrying its work id, the author id and one and the same
\* year, unit id, unit name and institution id
RowExpansion ==
    [][(pc = "fetched" /\ pc' = "main") =>
          /\ SubSeq(rows', 1, Len(rows)) = rows
          /\ IsRowExpansion(Emitted, roster[idx], out)]_vars

\* C13 witness: a harvest of four works, one with two valid concepts, one without
\* concepts, one with one valid concept among three, has given four rows
RowExpansionWitness ==
    /\ pc = "main" /\ Len(harvests) = 1 /\ harvests[1].status = "ok"
    /\ Len(harvests[1].works) = 4
    /\ \E k \in 1..4 : harvests[1].works[k].concepts = <<>>
    /\ \E k \in 1..4 : Len(harvests[1].works[k].concepts) = 3
    /\ Len(rows) = 4
    /\ rows[1].work_id = rows[2].work_id
    /\ rows[1].concept_id # rows[2].concept_id

\* positions in rows of the rows of one concept and period
GroupOf(cid, period) ==
    {k \in 1..Len(rows) : rows[k].concept_id = cid /\ rows[k].year = period}

WorkIdsOf(G) == {rows[k].work_id : k \in G}

PairwiseDistinctWorks(G) == \A k, l \in G : k # l => rows[k].work_id # rows[l].work_id

\* C14: the denominator table has one record per (concept_id, period) group of
\* the collected rows; its global_works is the number of distinct work ids of
\* the group, at most the number of rows of the group, and equal to it exactly
\* when the rows of the group have pairwise distinct work ids
DistinctWorkCount ==
    globalsCsv.exists =>
        /\ \A k \in 1..Len(rows) : \E g \in globalsCsv.rows :
              g.concept_id = rows[k].concept_id /\ g.period = rows[k].year
        /\ \A g \in globalsCsv.rows :
              LET G == GroupOf(g.concept_id, g.period)
              IN  /\ G # {}
                  /\ \A h \in globalsCsv.rows :
                        (h.concept_id = g.concept_id /\ h.period = g.period) => h = g
                  /\ g.global_works = Cardinality(WorkIdsOf(G))
                  /\ g.global_works <= Cardinality(G)
                  /\ (g.global_works = Cardinality(G)) <=> PairwiseDistinctWorks(G)

\* C14 witness: a group of three rows of two works, one of the works harvested
\* for two roster authors and counted once
DistinctWorkCountWitness ==
    /\ pc = "done"
    /\ \E g \in globalsCsv.rows :
          LET G == GroupOf(g.concept_id, g.period)
          IN  /\ Cardinality(G) = 3
              /\ g.global_works = 2
              /\ \E k, l \in G : /\ rows[k].work_id = rows[l].work_id
                                 /\ rows[k].author_openalex_id # rows[l].author_openalex_id

\* the results of the pages, page after page
RECURSIVE ConcatResults(_)
ConcatResults(ps) ==
    IF ps = <<>> THEN <<>>
    ELSE ConcatResults(SubSeq(ps, 1, Len(ps) - 1)) \o ps[Len(ps)].results

\* C15: the request for the first page carries the cursor "*", the request for
\* every later page the next cursor of the page received just before it; and
\* what fetch_all has collected, and returns, is the results of the pages
\* received, page after page, each in the order the server sent
CursorChaining ==
    /\ (InGet /\ nreq > 0) =>
          sentCursor = IF pages = <<>> THEN <<"*">> ELSE pages[Len(pages)].next_cursor
    /\ out = ConcatResults(pages)

\* C15 witness: two pages fetched, the second requested with the cursor the
\* first one returned, and both pages' results returned in that order
CursorChainingWitness ==
    /\ pc = "fetched" /\ Len(pages) = 2
    /\ sentCursor = pages[1].next_cursor
    /\ pages[1].results # <<>> /\ pages[2].results # <<>>
    /\ pages[1].results # pages[2].results
    /\ out = pages[1].results \o pages[2].results

\* C16 as a step: a rate-limiting delay is made after a page that returned a
\* next cursor, one at a time, before the first request for the following page
RateDelayStep ==
    rateSleeps' > rateSleeps =>
        /\ rateSleeps' = rateSleeps + 1
        /\ pc = "got" /\ Len(pages') = Len(pages) + 1
        /\ pages'[Len(pages')].next_cursor \notin {None, <<>>}
        /\ pc' = "get" /\ nreq' = 0 /\ ngets' = ngets + 1

\* C16: while fetch_all is requesting its k-th page it has made k-1
\* rate-limiting delays, none before the first request; when it returns after n
\* pages it has made n-1, none after the last page; every delay is made between
\* a page that returned a next cursor and the request for the following page
RateDelayPlacement ==
    /\ [](pc \in {"get", "got"} => rateSleeps = ngets - 1 /\ rateSleeps = Len(pages))
    /\ [](pc = "fetched" => rateSleeps = Len(pages) - 1)
    /\ [][RateDelayStep]_vars

\* C16 witness: fetch_all returns after two pages and one delay
RateDelayWitness ==
    /\ pc = "fetched" /\ Len(pages) = 2 /\ ngets = 2 /\ rateSleeps = 1

RECURSIVE Pow2(_)
Pow2(n) == IF n = 0 THEN 1 ELSE 2 * Pow2(n - 1)

\* C17: the i-th backoff sleep of a call lasts min(2^(i-1), 30), and the call
\* has slept once per transient response it received, the last one of an
\* exhausted call included
BackoffSchedule ==
    /\ \A i \in 1..Len(sleeps) :
          sleeps[i] = IF Pow2(i - 1) <= 30 THEN Pow2(i - 1) ELSE 30
    /\ Len(sleeps) = resp.ntrans

\* C17 witness: a call exhausted by six transient responses has slept six times,
\* the sixth time at the cap
BackoffScheduleWitness ==
    /\ pc = "raise" /\ exc = "HTTPError"
    /\ resp.ntrans = 6 /\ Len(sleeps) = 6
    /\ sleeps[1] = 1 /\ sleeps[5] = 16 /\ sleeps[6] = 30

\* a step that begins a _get call leaves it with no attempt used, no request
\* issued, no sleep made and a backoff of 1
FreshRetryStep ==
    (pc # "get" /\ pc' = "get") =>
        attempt' = 0 /\ backoff' = 1 /\ nreq' = 0 /\ sleeps' = <<>>

\* C18: every _get call begins with no attempt used and a backoff of 1; the
\* attempts a call has used are its own transient responses, never those of an
\* earlier page or author, so that it may issue 6 requests, and its first
\* backoff sleep lasts 1
RetryStateLocal ==
    /\ [](pc = "get" =>
            /\ attempt = resp.ntrans /\ nreq = resp.n /\ attempt = nreq
            /\ attempt < 6
            /\ sleeps = <<>> => backoff = 1
            /\ sleeps # <<>> => sleeps[1] = 1)
    /\ [][FreshRetryStep]_vars

\* C18 witness: after an earlier call of the run had to retry, the call for the
\* second page of an author is about to issue its sixth request, its first
\* backoff sleep having lasted 1
RetryStateLocalWitness ==
    /\ pc = "get" /\ retried
    /\ ngets = 2 /\ nreq = 5 /\ attempt = 5
    /\ sleeps[1] = 1

\* the work holds an authorship of the author
HasAuthorshipOf(w, aid) == \E i \in 1..Len(w.authorships) : w.authorships[i].author_id = aid

\* the unit of a row of author aid that no authorship decides: the override's,
\* a blank field replaced by the author bucket's, else the author bucket
UnitWithoutAuthorship(aid) ==
    IF aid \in DOMAIN AUTHOR_OVERRIDES
    THEN [id   |-> IF AUTHOR_OVERRIDES[aid].unit_id = <<>>
                   THEN <<"a", "u", "t", "h", "o", "r", ":">> \o aid
                   ELSE AUTHOR_OVERRIDES[aid].unit_id,
          name |-> IF AUTHOR_OVERRIDES[aid].unit_name = <<>>
                   THEN <<"A", "u", "t", "h", "o", "r", " ">> \o aid
                   ELSE AUTHOR_OVERRIDES[aid].unit_name]
    ELSE [id   |-> <<"a", "u", "t", "h", "o", "r", ":">> \o aid,
          name |-> <<"A", "u", "t", "h", "o", "r", " ">> \o aid]

\* the rows emitted for the works that hold no authorship of the author: one per
\* valid concept, with the unit of the override or the author bucket and
\* neither raw affiliation nor institution id
OrphanRows(emitted, aid, works) ==
    /\ Len(emitted) = RowsDue(works, Len(works))
    /\ \A k \in 1..Len(works) : ~HasAuthorshipOf(works[k], aid) =>
          \A i \in 1..Len(ValidConcepts(works[k])) :
              LET row == emitted[RowsDue(works, k - 1) + i]
              IN  /\ row.work_id = works[k].id
                  /\ row.concept_id = ValidConcepts(works[k])[i].id
                  /\ row.unit_id_auto = UnitWithoutAuthorship(aid).id
                  /\ row.unit_name_auto = UnitWithoutAuthorship(aid).name
                  /\ row.raw_affiliation = None
                  /\ row.institution_ror = None

\* C19: a work returned for an author that holds no authorship of that author
\* still gives one row per valid concept; the rows carry the unit of the
\* author's override if there is one and the author bucket otherwise, whatever
\* the alias rules are, and neither raw affiliation nor institution id
NoAuthorshipRows ==
    [][(pc = "fetched" /\ pc' = "main") => OrphanRows(Emitted, roster[idx], out)]_vars

\* C19 witness: with a catch-all alias rule loaded and no override for A1, the
\* work without authorships harvested for A1 has its row in the author bucket
NoAuthorshipWitness ==
    /\ pc = "main"
    /\ \E k \in 1..Len(ALIAS_RULES) : ALIAS_RULES[k].re = <<".", "*">>
    /\ \E k \in 1..Len(rows) :
          /\ rows[k].author_openalex_id = A1
          /\ rows[k].work_id = Work3.id
          /\ rows[k].unit_id_auto = <<"a", "u", "t", "h", "o", "r", ":", "A", "1">>
          /\ rows[k].raw_affiliation = None

====
